---- MODULE Spec2Model ----
(***************************************************************************)
(* Random test-value generation of origin (core/include/origin/random.hpp) *)
(* modelled as a state machine.                                            *)
(*                                                                         *)
(* Two runs of the same build (Runs) are executed side by side: run 1      *)
(* chooses the operations, run 2 repeats each of them.  Both start from    *)
(* the same engine state and the same distribution; what may differ        *)
(* between them is what the program leaves open: the old contents of the   *)
(* destination buffers and how a random variable binds its engine.         *)
(***************************************************************************)
EXTENDS Integers, Sequences, FiniteSets, TLC

(***************************************************************************)
(* Bounds of the model.                                                    *)
(***************************************************************************)
MaxOps == 2
MaxCalls == 3
MaxLen == 2
MaxCont == 2
SizeBits == 8

Runs == {1, 2}

(***************************************************************************)
(* The random number engine (Random_bit_generator: gen() -> result_type).  *)
(* The engines origin is used with are std:: linear congruential engines   *)
(* (std::minstd_rand at random.hpp:74); the model keeps the recurrence and *)
(* scales the modulus down.  The parameters give a full period, so every   *)
(* word in EngMin..EngMax is eventually produced.                          *)
(***************************************************************************)
EngineMod == 128
EngineMul == 5
EngineInc == 47

EngMin == 0
EngMax == EngineMod - 1
UrngRange == EngMax - EngMin

EngStates == 0 .. (EngineMod - 1)

\* One call of the engine: the state moves on, the new state is the word.
EngStep(e) == (EngineMul * e + EngineInc) % EngineMod

\* The engine states the runs of mixed operations start from.
Seeds == {44, 85}

(***************************************************************************)
(* std::uniform_int_distribution<T>{a, b} as libstdc++ computes it: scale  *)
(* the engine's range down by rejection, or build a wider word from        *)
(* several engine words.  Every result is [eng |-> engine state after the  *)
(* call, val |-> value].                                                   *)
(***************************************************************************)
RECURSIVE RejectLoop(_, _)
\* do ret = urng() - urngmin; while (ret >= past);
RejectLoop(e, past) ==
  LET e1 == EngStep(e)
      ret == e1 - EngMin
  IN IF ret >= past THEN RejectLoop(e1, past) ELSE [eng |-> e1, val |-> ret]

RECURSIVE UniformInt(_, _, _)
RECURSIVE UpscaleLoop(_, _)
\* do { tmp = uerngrange * (*this)(urng, param(0, urange / uerngrange));
\*      ret = tmp + (urng() - urngmin); } while (ret > urange);
UpscaleLoop(e, urange) ==
  LET uerngrange == UrngRange + 1
      hi == UniformInt(0, urange \div uerngrange, e)
      tmp == uerngrange * hi.val
      e1 == EngStep(hi.eng)
      ret == tmp + (e1 - EngMin)
  IN IF ret > urange THEN UpscaleLoop(e1, urange) ELSE [eng |-> e1, val |-> ret]

UniformInt(a, b, e) ==
  LET urange == b - a IN
  IF UrngRange > urange
    THEN LET uerange == urange + 1
             scaling == UrngRange \div uerange
             past == uerange * scaling
             r == RejectLoop(e, past)
         IN [eng |-> r.eng, val |-> (r.val \div scaling) + a]
    ELSE IF UrngRange < urange
      THEN LET r == UpscaleLoop(e, urange)
           IN [eng |-> r.eng, val |-> r.val + a]
      ELSE LET e1 == EngStep(e)
           IN [eng |-> e1, val |-> (e1 - EngMin) + a]

(***************************************************************************)
(* Distributions are values: a kind and the construction parameters.       *)
(***************************************************************************)
UniformIntDist(a, b) == [kind |-> "uniform_int", a |-> a, b |-> b]

\* single_value_distribution(const T& x) : value(x)
single_value_distribution(x) == [kind |-> "single_value", value |-> x]

\* random_sequence_distribution(const Size& s, const Gen& d) : size{s}, gen{d}
random_sequence_distribution(s, d) == [kind |-> "sequence", size |-> s, gen |-> d]

\* Defaults of random_string_distribution: Len{0, 32}, Alpha{33, 126}.
StrLenMin == 0
StrLenMax == 32
StrCharMin == 33
StrCharMax == 126

\* random_string_distribution(l, a) : base_type(l, a)
random_string_distribution(l, a) == random_sequence_distribution(l, a)

\* Faulty variant of the default string distribution: the characters the
\* comment of random_string_distribution names, 32 to 127.
default_string_distribution_32_127 ==
  random_string_distribution(UniformIntDist(StrLenMin, StrLenMax),
                             UniformIntDist(StrCharMin - 1, StrCharMax + 1))

\* default_distribution_traits<std::basic_string>::get() { return Dist{}; }
default_string_distribution ==
  random_string_distribution(UniformIntDist(StrLenMin, StrLenMax),
                             UniformIntDist(StrCharMin, StrCharMax))

\* random_tuple_generator(Dists&&... ds) : dists{ds...}
random_tuple_generator(ds) == [kind |-> "tuple", dists |-> ds]

IsScalar(d) == d.kind \in {"uniform_int", "single_value"}

\* Value_type<Seq>{}: the value-initialised element the sequence is built of.
ValueInit == 0

(***************************************************************************)
(* State.                                                                  *)
(***************************************************************************)
VARIABLES
  argOrder,   \* the build: order in which the arguments of a three-argument
              \* call are evaluated (argOrder[k] is the k-th evaluated)
  dist,       \* the distribution the program was configured with
  eng,        \* eng[w]: the caller's engine of run w
  rv,         \* rv[w]: the random variable of run w (bind = "none": none yet)
  buf,        \* buf[w]: the caller's destination buffer of run w
  hist,       \* hist[w]: the operations run w has performed, with results
  pending,    \* <<op>> while run 2 still has to repeat run 1's last operation
  limit,      \* how many operations a run performs
  cont,       \* cont[c]: the elements of container c
  itd,        \* itd[s]: the iterator-position distribution in slot s
  store,      \* store[c]: where the elements of container c begin
  input,      \* the argument the operation under study is applied to
  gs          \* the generator stream

iterVars == <<cont, itd, store>>

vars ==
  <<argOrder, dist, eng, rv, buf, hist, pending, limit, cont, itd, store, input, gs>>

LeftToRight == <<1, 2, 3>>

Perms3 == {p \in [1 .. 3 -> 1 .. 3] : \A i, j \in 1 .. 3 : p[i] = p[j] => i = j}

\* One entry of an invocation log: which position or field was drawn, the
\* engine before and after the draw, and the value drawn.
LogEntry(at, pre, r) == [at |-> at, pre |-> pre, post |-> r.eng, val |-> r.val]

(***************************************************************************)
(* random_variable<Eng, Dist>: bind = "ref" when Eng is a reference type   *)
(* (the member eng then is the caller's engine), "val" when it is an       *)
(* object type (the member eng is the variable's own copy).                *)
(***************************************************************************)
\* random_variable(Eng e, Dist d) : eng(e), dist(d)
random_variable(bind, e, d) ==
  [bind |-> bind, eng |-> IF bind = "val" THEN e ELSE EngMin, dist |-> d]

\* Faulty variant of make_random: Eng deduced as an object type for an lvalue.
make_random_copy(cat, e, d) == random_variable("val", e, d)

\* make_random(Eng&& eng, Dist&& dist) { return {eng, dist}; }
\* Eng&& deduces Eng = E& for an lvalue argument and Eng = E for an rvalue.
make_random(cat, e, d) ==
  random_variable(IF cat = "lvalue" THEN "ref" ELSE "val", e, d)

NoVariable == [bind |-> "none", eng |-> EngMin, dist |-> single_value_distribution(0)]

\* The engine a random variable draws from; target is the caller's engine.
BoundEngine(v, target) == IF v.bind = "ref" THEN target ELSE v.eng

RECURSIVE Invoke(_, _)

\* Faulty variant of the call operator: draws from a copy of the bound engine.
random_variable_call_copy(v, target) ==
  LET r == Invoke(v.dist, BoundEngine(v, target))
  IN [val |-> r.val, rv |-> v, target |-> target]

\* result_type operator()() { return dist(eng); }
\* Yields the value, the variable afterwards and the caller's engine afterwards.
random_variable_call(v, target) ==
  LET r == Invoke(v.dist, BoundEngine(v, target))
  IN [val |-> r.val,
      rv |-> IF v.bind = "ref" THEN v ELSE [v EXCEPT !.eng = r.eng],
      target |-> IF v.bind = "ref" THEN r.eng ELSE target]

\* engine_type engine() { return eng; }
random_variable_engine(v, target) == BoundEngine(v, target)

\* distribution_type distribution() { return dist; }
random_variable_distribution(v) == v.dist

(***************************************************************************)
(* generate(range, gen) of origin/algorithm.hpp: assigns gen() to every    *)
(* position of the range, first to last.                                   *)
(***************************************************************************)
RECURSIVE generate(_, _, _, _, _)
generate(s, i, v, target, log) ==
  IF i > Len(s)
    THEN [seq |-> s, rv |-> v, target |-> target, log |-> log]
    ELSE LET pre == BoundEngine(v, target)
             c == random_variable_call(v, target)
             post == BoundEngine(c.rv, c.target)
         IN generate([s EXCEPT ![i] = c.val], i + 1, c.rv, c.target,
                     Append(log, [at |-> i, pre |-> pre, post |-> post,
                                  val |-> c.val]))

\* Faulty variant of single_value_invoke: one word of the engine is used up.
single_value_invoke_draw(d, e) == [eng |-> EngStep(e), val |-> d.value, log |-> <<>>]

\* single_value_distribution::operator()(Eng& eng) const { return value; }
single_value_invoke(d, e) == [eng |-> e, val |-> d.value, log |-> <<>>]

uniform_int_invoke(d, e) ==
  LET r == UniformInt(d.a, d.b, e) IN [eng |-> r.eng, val |-> r.val, log |-> <<>>]

\* Faulty variant of the sequence distribution: the random variable it fills
\* the sequence from owns a copy of the engine.
random_sequence_invoke_copy(d, e) ==
  LET n == Invoke(d.size, e)
      s == [i \in 1 .. n.val |-> ValueInit]
      g == generate(s, 1, make_random_copy("lvalue", n.eng, d.gen), n.eng, <<>>)
  IN [eng |-> g.target, val |-> g.seq, log |-> <<LogEntry(0, e, n)>> \o g.log]

\* Seq operator()(Eng& eng) {
\*   Seq s(size(eng), Value_type<Seq>{});
\*   generate(s, make_random(eng, gen));
\*   return std::move(s); }
\* The log holds the size draw (at = 0) and then the element draws.
random_sequence_invoke(d, e) ==
  LET n == Invoke(d.size, e)
      s == [i \in 1 .. n.val |-> ValueInit]
      g == generate(s, 1, make_random("lvalue", n.eng, d.gen), n.eng, <<>>)
  IN [eng |-> g.target, val |-> g.seq, log |-> <<LogEntry(0, e, n)>> \o g.log]

(***************************************************************************)
(* random_tuple_generator::generate.  TupleDraw evaluates the calls        *)
(* get<i>(dists)(eng) in the order given and puts each value in its field. *)
(***************************************************************************)
RECURSIVE TupleDraw(_, _, _, _, _, _)
TupleDraw(ds, order, k, e, val, log) ==
  IF k > Len(ds)
    THEN [eng |-> e, val |-> val, log |-> log]
    ELSE LET f == order[k]
             r == Invoke(ds[f], e)
         IN TupleDraw(ds, order, k + 1, r.eng, [val EXCEPT ![f] = r.val],
                      Append(log, LogEntry(f, e, r)))

\* generate<D1, D2>: result_type { get<0>(dists)(eng), get<1>(dists)(eng) }
\* A braced initialiser list is evaluated left to right.
tuple_generate2(d, e) ==
  TupleDraw(d.dists, LeftToRight, 1, e, [i \in 1 .. 2 |-> ValueInit], <<>>)

\* generate<D1, D2, D3>: result_type(get<0>(dists)(eng), get<1>(dists)(eng),
\* get<2>(dists)(eng)).  The arguments of a call are evaluated in an order
\* the language leaves to the build.
tuple_generate3(d, e) ==
  TupleDraw(d.dists, argOrder, 1, e, [i \in 1 .. 3 |-> ValueInit], <<>>)

\* result_type operator()(Eng& eng) { return generate<Dists...>(eng); }
\* generate<D1> does not compile (it calls the tuple), and there is no
\* overload for more than three distributions: the arities are 2 and 3.
random_tuple_invoke(d, e) ==
  IF Len(d.dists) = 2 THEN tuple_generate2(d, e) ELSE tuple_generate3(d, e)

\* adapted_distribution(const Dist& dist) : dist(dist), with the result type
\* Result the values are wrapped into.
adapted_distribution(d, result) == [kind |-> "adapted", dist |-> d, result |-> result]

\* result_type(x): a Result constructed over a value of the wrapped distribution.
Construct(result, x) == [type |-> result, from |-> x]

\* result_type operator()(Eng& eng) { return result_type(dist(eng)); }
adapted_invoke(d, e) ==
  LET r == Invoke(d.dist, e)
  IN [eng |-> r.eng, val |-> Construct(d.result, r.val),
      log |-> <<LogEntry(1, e, r)>>]

\* dist(eng) for every kind of distribution.
Invoke(d, e) ==
  CASE d.kind = "uniform_int" -> uniform_int_invoke(d, e)
    [] d.kind = "single_value" -> single_value_invoke(d, e)
    [] d.kind = "sequence" -> random_sequence_invoke(d, e)
    [] d.kind = "tuple" -> random_tuple_invoke(d, e)
    [] d.kind = "adapted" -> adapted_invoke(d, e)

(***************************************************************************)
(* operator== and operator!= of the distributions.  Both operands have the *)
(* same type: the same class template over the same distribution types.    *)
(***************************************************************************)
RECURSIVE dist_equal(_, _)
RECURSIVE dist_not_equal(_, _)

\* std::uniform_int_distribution: equal parameters a and b.
uniform_int_equal(x, y) == x.a = y.a /\ x.b = y.b

\* single_value_distribution: value == x.value, value != x.value
single_value_equal(x, y) == x.value = y.value
single_value_not_equal(x, y) == x.value # y.value

\* Faulty variant of equal: the element distributions are not compared.
random_sequence_equal_size(x, y) == dist_equal(x.size, y.size)

\* bool equal(const this_type& x) const { return size == x.size && gen == x.gen; }
random_sequence_equal(x, y) == dist_equal(x.size, y.size) /\ dist_equal(x.gen, y.gen)

\* bool operator!=(const this_type& x) const { return !equal(x); }
random_sequence_not_equal(x, y) == ~random_sequence_equal(x, y)

\* bool operator==(const this_type& x) const { return dists == x.dists; }
\* std::tuple compares the components pairwise, in order.
random_tuple_equal(x, y) ==
  \A i \in 1 .. Len(x.dists) : dist_equal(x.dists[i], y.dists[i])

\* bool operator!=(const this_type& x) const { return dists != x.dists; }
random_tuple_not_equal(x, y) ==
  ~(\A i \in 1 .. Len(x.dists) : dist_equal(x.dists[i], y.dists[i]))

\* bool operator==(const this_type& x) const { return dist == x.dist; }
adapted_equal(x, y) == dist_equal(x.dist, y.dist)

\* bool operator!=(const this_type& x) const { return dist != x.dist; }
adapted_not_equal(x, y) == dist_not_equal(x.dist, y.dist)

\* x == y for every kind of distribution.
dist_equal(x, y) ==
  CASE x.kind = "uniform_int" -> uniform_int_equal(x, y)
    [] x.kind = "single_value" -> single_value_equal(x, y)
    [] x.kind = "sequence" -> random_sequence_equal(x, y)
    [] x.kind = "tuple" -> random_tuple_equal(x, y)
    [] x.kind = "adapted" -> adapted_equal(x, y)

\* x != y for every kind of distribution.
dist_not_equal(x, y) ==
  CASE x.kind = "uniform_int" -> ~uniform_int_equal(x, y)
    [] x.kind = "single_value" -> single_value_not_equal(x, y)
    [] x.kind = "sequence" -> random_sequence_not_equal(x, y)
    [] x.kind = "tuple" -> random_tuple_not_equal(x, y)
    [] x.kind = "adapted" -> adapted_not_equal(x, y)

RECURSIVE SameType(_, _)
\* x and y are objects of one type, so that x == y compiles.
SameType(x, y) ==
  /\ x.kind = y.kind
  /\ x.kind = "sequence" => SameType(x.size, y.size) /\ SameType(x.gen, y.gen)
  /\ x.kind = "tuple" =>
       /\ Len(x.dists) = Len(y.dists)
       /\ \A i \in 1 .. Len(x.dists) :
            i <= Len(y.dists) => SameType(x.dists[i], y.dists[i])
  /\ x.kind = "adapted" => x.result = y.result /\ SameType(x.dist, y.dist)

(***************************************************************************)
(* generate_random(first, last, eng, gen): the bulk fill.  Positions are   *)
(* 1 .. Len(b); last = Len(b) + 1 is the end position.  writes lists the   *)
(* positions assigned, in the order of the assignments.                    *)
(***************************************************************************)
FillState(b) == [buf |-> b, log |-> <<>>, writes |-> <<>>]

RECURSIVE generate_random_inclusive(_, _, _, _, _)
\* Faulty variant of generate_random: while(first <= last).
generate_random_inclusive(first, last, e, d, st) ==
  IF first > last
    THEN [eng |-> e, buf |-> st.buf, log |-> st.log, writes |-> st.writes]
    ELSE LET r == Invoke(d, e)
         IN generate_random_inclusive(first + 1, last, r.eng, d,
              [buf |-> [st.buf EXCEPT ![first] = r.val],
               log |-> Append(st.log, LogEntry(first, e, r)),
               writes |-> Append(st.writes, first)])

RECURSIVE generate_random_skip(_, _, _, _, _)
\* Faulty variant of generate_random: the iterator is advanced before the
\* assignment, so the first position keeps its old value.
generate_random_skip(first, last, e, d, st) ==
  IF first = last \/ first + 1 = last
    THEN [eng |-> e, buf |-> st.buf, log |-> st.log, writes |-> st.writes]
    ELSE LET r == Invoke(d, e)
         IN generate_random_skip(first + 1, last, r.eng, d,
              [buf |-> [st.buf EXCEPT ![first + 1] = r.val],
               log |-> Append(st.log, LogEntry(first + 1, e, r)),
               writes |-> Append(st.writes, first + 1)])

RECURSIVE generate_random(_, _, _, _, _)
\* while(first != last) { *first = gen(eng); ++first; }
generate_random(first, last, e, d, st) ==
  IF first = last
    THEN [eng |-> e, buf |-> st.buf, log |-> st.log, writes |-> st.writes]
    ELSE LET r == Invoke(d, e)
         IN generate_random(first + 1, last, r.eng, d,
              [buf |-> [st.buf EXCEPT ![first] = r.val],
               log |-> Append(st.log, LogEntry(first, e, r)),
               writes |-> Append(st.writes, first)])

o_begin(range) == 1
o_end(range) == Len(range) + 1

\* Faulty variant of the range overload: the last element is left out.
generate_random_range_short(range, e, d) ==
  generate_random(o_begin(range), o_end(range) - 1, e, d, FillState(range))

\* generate_random(R&& range, Eng&& eng, Gen&& gen)
\*   { generate_random(o_begin(range), o_end(range), eng, gen); }
generate_random_range(range, e, d) ==
  generate_random(o_begin(range), o_end(range), e, d, FillState(range))

(***************************************************************************)
(* The operations of a run.                                                *)
(***************************************************************************)
Op(name, first, last) == [name |-> name, first |-> first, last |-> last]

\* Run 1 chooses an operation; run 2 repeats it.
CanDo(w, op) ==
  IF w = 1 THEN pending = <<>> /\ Len(hist[1]) < limit ELSE pending = <<op>>

\* What an operation leaves in the history of its run.
Record(w, op, cat, val, log, writes) ==
  /\ hist' = [hist EXCEPT ![w] = Append(@,
       [op |-> op.name, first |-> op.first, last |-> op.last, cat |-> cat,
        pre |-> eng[w], post |-> eng'[w],
        rvPre |-> rv[w], rvPost |-> rv'[w],
        bufPre |-> buf[w], bufPost |-> buf'[w],
        val |-> val, log |-> log, writes |-> writes])]
  /\ pending' = IF w = 1 THEN <<op>> ELSE <<>>
  /\ UNCHANGED <<limit, iterVars, input, gs>>

\* generate_random(first, last, eng, dist) on the caller's buffer.
GenerateRandomIter(w, first, last) ==
  LET op == Op("generate_random_iter", first, last)
      r == generate_random(first, last, eng[w], dist, FillState(buf[w]))
  IN /\ CanDo(w, op)
     /\ eng' = [eng EXCEPT ![w] = r.eng]
     /\ buf' = [buf EXCEPT ![w] = r.buf]
     /\ UNCHANGED <<argOrder, dist, rv>>
     /\ Record(w, op, "none", 0, r.log, r.writes)

\* generate_random(range, eng, dist) on the caller's buffer.
GenerateRandomRange(w) ==
  LET op == Op("generate_random_range", 0, 0)
      r == generate_random_range(buf[w], eng[w], dist)
  IN /\ CanDo(w, op)
     /\ eng' = [eng EXCEPT ![w] = r.eng]
     /\ buf' = [buf EXCEPT ![w] = r.buf]
     /\ UNCHANGED <<argOrder, dist, rv>>
     /\ Record(w, op, "none", 0, r.log, r.writes)

\* dist(eng) on the caller's engine.
InvokeDist(w) ==
  LET op == Op("invoke", 0, 0)
      r == Invoke(dist, eng[w])
  IN /\ CanDo(w, op)
     /\ eng' = [eng EXCEPT ![w] = r.eng]
     /\ UNCHANGED <<argOrder, dist, rv, buf>>
     /\ Record(w, op, "none", r.val, r.log, <<>>)

\* make_random(eng, dist) with the caller's engine given as an lvalue, or
\* make_random(Eng(eng), dist) with a temporary copy of it.
MakeRandom(w, cat) ==
  LET op == Op("make_random", 0, 0)
  IN /\ CanDo(w, op)
     /\ rv' = [rv EXCEPT ![w] = make_random(cat, eng[w], dist)]
     /\ UNCHANGED <<argOrder, dist, eng, buf>>
     /\ Record(w, op, cat, 0, <<>>, <<>>)

\* rv()
RvCall(w) ==
  LET op == Op("rv_call", 0, 0)
      c == random_variable_call(rv[w], eng[w])
  IN /\ rv[w].bind # "none"
     /\ CanDo(w, op)
     /\ rv' = [rv EXCEPT ![w] = c.rv]
     /\ eng' = [eng EXCEPT ![w] = c.target]
     /\ UNCHANGED <<argOrder, dist, buf>>
     /\ Record(w, op, "none", c.val, <<>>, <<>>)

\* rv.engine()
RvEngine(w) ==
  LET op == Op("rv_engine", 0, 0)
  IN /\ rv[w].bind # "none"
     /\ CanDo(w, op)
     /\ UNCHANGED <<argOrder, dist, eng, rv, buf>>
     /\ Record(w, op, "none", random_variable_engine(rv[w], eng[w]), <<>>, <<>>)

\* rv.distribution()
RvDistribution(w) ==
  LET op == Op("rv_distribution", 0, 0)
  IN /\ rv[w].bind # "none"
     /\ CanDo(w, op)
     /\ UNCHANGED <<argOrder, dist, eng, rv, buf>>
     /\ Record(w, op, "none", random_variable_distribution(rv[w]), <<>>, <<>>)

(***************************************************************************)
(* The distributions that are compared: of every composite, some that      *)
(* differ in one parameter only.                                           *)
(***************************************************************************)
UniformMenu == {UniformIntDist(0, 9), UniformIntDist(0, 19), UniformIntDist(10, 19)}
SizeMenu == {UniformIntDist(0, MaxLen), UniformIntDist(1, MaxLen)}
SequenceMenu == {random_sequence_distribution(n, g) : n \in SizeMenu, g \in UniformMenu}
PairMenu == {random_tuple_generator(<<x, y>>) : x, y \in UniformMenu}
AdaptedMenu == {adapted_distribution(x, "Result") : x \in UniformMenu}
InnerUniform == {UniformIntDist(0, 9), UniformIntDist(10, 19)}
InnerSequence == {random_sequence_distribution(n, g) : n \in SizeMenu, g \in InnerUniform}
InnerPair == {random_tuple_generator(<<x, y>>) : x, y \in InnerUniform}
InnerAdapted == {adapted_distribution(x, "Result") : x \in InnerUniform}
NestedMenu ==
  {random_sequence_distribution(n, g) : n \in SizeMenu, g \in InnerPair}
    \cup {random_tuple_generator(<<x, y>>) : x \in InnerSequence, y \in InnerAdapted}
    \cup {adapted_distribution(x, "Result") : x \in InnerSequence \cup InnerPair}
EqualMenu ==
  {single_value_distribution(7), single_value_distribution(8)}
    \cup SequenceMenu \cup PairMenu \cup AdaptedMenu \cup NestedMenu

\* dist == other and dist != other, for a distribution other of the type of
\* dist.
CompareDist(w, other) ==
  LET op == [name |-> "compare", first |-> 0, last |-> 0, other |-> other]
  IN /\ CanDo(w, op)
     /\ SameType(dist, other)
     /\ UNCHANGED <<argOrder, dist, eng, rv, buf>>
     /\ Record(w, op, "none",
               [other |-> other, eq |-> dist_equal(dist, other),
                neq |-> dist_not_equal(dist, other)], <<>>, <<>>)

(***************************************************************************)
(* Initial states.                                                         *)
(***************************************************************************)
U0 == UniformIntDist(0, 9)
U1 == UniformIntDist(10, 19)
U2 == UniformIntDist(20, 29)

DistMenu ==
  { U0,
    single_value_distribution(7),
    random_sequence_distribution(UniformIntDist(0, MaxLen), U0),
    default_string_distribution,
    random_tuple_generator(<<U0, U1>>),
    random_tuple_generator(<<U0, U1, U2>>) }

\* What a destination holds before it is filled: any old value of the
\* result type; the two runs start with different ones.
Prior(w, d) == IF IsScalar(d) THEN 0 - w ELSE <<0 - w>>

(***************************************************************************)
(* random_iterator_distribution<Cont>.  Containers are named by CIds, the  *)
(* member cont is a reference: the name.  Size_type<Cont> is an unsigned   *)
(* type of SizeBits bits.  A position is an address: the elements of       *)
(* container c lie at store[c], store[c] + 1, ...; begin() is store[c] and *)
(* end() is store[c] + size().                                             *)
(***************************************************************************)
CIds == {1, 2}
Slots == {1, 2}

SizeModulus == 2 ^ SizeBits

NoIterDist == [live |-> FALSE, cont |-> 1, dist |-> UniformIntDist(0, 0), size0 |-> 0]

\* Faulty variant of the constructor: dist(0, c.size()).
random_iterator_distribution_size(c) ==
  [live |-> TRUE, cont |-> c,
   dist |-> UniformIntDist(0, Len(cont[c]) % SizeModulus),
   size0 |-> Len(cont[c])]

\* random_iterator_distribution(Cont& c) : cont(c), dist(0, c.size() - 1)
\* c.size() - 1 is computed in Size_type.  size0 remembers c.size().
random_iterator_distribution(c) ==
  [live |-> TRUE, cont |-> c,
   dist |-> UniformIntDist(0, (Len(cont[c]) - 1) % SizeModulus),
   size0 |-> Len(cont[c])]

\* o_next(i, n): the position n steps after i.
o_next(i, n) == i + n

\* cont.begin() and cont.end() of container c.
container_begin(c) == store[c]
container_end(c) == store[c] + Len(cont[c])

\* Faulty variant of the call operator: the bound is taken from the size the
\* container has now.
random_iterator_invoke_refresh(d, e) ==
  LET r == Invoke(UniformIntDist(0, (Len(cont[d.cont]) - 1) % SizeModulus), e)
  IN [eng |-> r.eng, idx |-> r.val, pos |-> o_next(container_begin(d.cont), r.val)]

\* result_type operator()(Eng& eng) { return o_next(cont.begin(), dist(eng)); }
random_iterator_invoke(d, e) ==
  LET r == Invoke(d.dist, e)
  IN [eng |-> r.eng, idx |-> r.val, pos |-> o_next(container_begin(d.cont), r.val)]

\* Faulty variant of operator==: the contents of the containers are compared.
iter_equal_contents(a, b) == cont[a.cont] = cont[b.cont]

\* bool operator==(const this_type& x) const { return &cont == &x.cont; }
iter_equal(a, b) == a.cont = b.cont

\* bool operator!=(const this_type& x) const { return &cont != &x.cont; }
iter_not_equal(a, b) == a.cont # b.cont

\* What an operation on containers and iterator-position distributions
\* leaves in the history: the container c it is about as it is afterwards,
\* and the results.
IterEntry(op, s, t, c, idx, pos, eq, neq) ==
  /\ hist' = [hist EXCEPT ![1] = Append(@,
       [op |-> op, slot |-> s, other |-> t, cont |-> c,
        size |-> Len(cont'[c]), begin |-> store'[c],
        size0 |-> IF s \in Slots THEN itd'[s].size0 ELSE 0,
        idx |-> idx, pos |-> pos, eq |-> eq, neq |-> neq,
        pre |-> eng[1], post |-> eng'[1]])]
  /\ UNCHANGED <<argOrder, dist, rv, buf, pending, limit, input, gs>>

IterRecord(op, s, idx, pos) ==
  IterEntry(op, s, s, itd'[s].cont, idx, pos, FALSE, FALSE)

\* random_iterator_distribution<Cont> d(c) in slot s.
IterConstruct(s, c) ==
  /\ Len(hist[1]) < limit
  /\ itd' = [itd EXCEPT ![s] = random_iterator_distribution(c)]
  /\ UNCHANGED <<eng, cont, store>>
  /\ IterRecord("iter_construct", s, 0, 0)

\* d(eng) for the distribution in slot s, on the caller's engine.
IterInvoke(s) ==
  LET r == random_iterator_invoke(itd[s], eng[1])
  IN /\ Len(hist[1]) < limit
     /\ itd[s].live
     /\ eng' = [eng EXCEPT ![1] = r.eng]
     /\ UNCHANGED <<cont, itd, store>>
     /\ IterRecord("iter_invoke", s, r.idx, r.pos)

\* d1 == d2 and d1 != d2 for the distributions in slots s and t.
IterCompare(s, t) ==
  /\ Len(hist[1]) < limit
  /\ itd[s].live
  /\ itd[t].live
  /\ UNCHANGED <<eng, cont, itd, store>>
  /\ IterEntry("iter_compare", s, t, itd[s].cont, 0, 0,
               iter_equal(itd[s], itd[t]), iter_not_equal(itd[s], itd[t]))

\* Where the elements of container c lie after a reallocation.
Reallocated(c) == store[c] + Cardinality(CIds) * SizeModulus

\* c.resize(n): the first n elements are kept, new ones are value-initialised.
\* Growing beyond the capacity moves the elements; the capacity is at least
\* the size, so growing may or may not move them.  Shrinking never does.
Resize(c, n) ==
  /\ Len(hist[1]) < limit
  /\ n # Len(cont[c])
  /\ cont' = [cont EXCEPT ![c] =
                [i \in 1 .. n |-> IF i <= Len(@) THEN @[i] ELSE ValueInit]]
  /\ \E b \in (IF n > Len(cont[c]) THEN {store[c], Reallocated(c)} ELSE {store[c]}) :
       store' = [store EXCEPT ![c] = b]
  /\ UNCHANGED <<eng, itd>>
  /\ IterEntry("resize", 0, 0, c, 0, 0, FALSE, FALSE)

\* A container of n elements; containers of the same size hold equal elements.
Container(c, n) == [i \in 1 .. n |-> i]

\* Where the elements of container c lie at first.
Allocated(c) == c * SizeModulus

(***************************************************************************)
(* The default distributions.  A type is [name, args]: args are the types  *)
(* a template is instantiated with.  The type of a distribution is         *)
(* [dt, of, parts]: the class template, the result type it is instantiated *)
(* over, and the types of the distributions it is made of.  A type without *)
(* a default has the distribution type NoDistribution: the program that    *)
(* asks for it does not compile.                                           *)
(***************************************************************************)
Type(name, args) == [name |-> name, args |-> args]

Bool == Type("bool", <<>>)
Char == Type("char", <<>>)
SignedChar == Type("signed char", <<>>)
UnsignedChar == Type("unsigned char", <<>>)
Short == Type("short", <<>>)
UnsignedShort == Type("unsigned short", <<>>)
Float == Type("float", <<>>)
Double == Type("double", <<>>)
String == Type("basic_string", <<Char>>)
Struct == Type("struct", <<>>)
Vector(t) == Type("vector", <<t>>)
List(t) == Type("list", <<t>>)
Set(t) == Type("set", <<t>>)
Tuple(ts) == Type("tuple", ts)

\* std::numeric_limits<T>: is_signed, digits, min() and max().
IsSigned(T) == T.name \in {"char", "signed char", "short"}
Digits(T) ==
  CASE T.name = "bool" -> 1
    [] T.name \in {"char", "signed char"} -> 7
    [] T.name = "unsigned char" -> 8
    [] T.name = "short" -> 15
    [] T.name = "unsigned short" -> 16
NumericMin(T) == IF IsSigned(T) THEN 0 - 2 ^ Digits(T) ELSE 0
NumericMax(T) == 2 ^ Digits(T) - 1

\* The concepts the traits dispatch on.
Integral(T) ==
  T.name \in {"bool", "char", "signed char", "unsigned char", "short", "unsigned short"}
Floating_point(T) == T.name \in {"float", "double"}
Arithmetic(T) == Integral(T) \/ Floating_point(T)
Sequence(T) == T.name \in {"vector", "list", "basic_string"}
Associative_container(T) == T.name = "set"

DistType(dt, of, parts) == [dt |-> dt, of |-> of, parts |-> parts]

NoDistribution == DistType("none", Struct, <<>>)

RECURSIVE default_distribution_traits(_)

\* Default_distribution_type<T> = decltype(default_distribution_traits<T>::get())
Default_distribution_type(T) == default_distribution_traits(T)

\* The distribution type made of the parts, when every part exists.
Composite(dt, of, parts) ==
  IF \E i \in 1 .. Len(parts) : parts[i] = NoDistribution
    THEN NoDistribution
    ELSE DistType(dt, of, parts)

\* default_integral_distribution<T>::get() -> std::uniform_int_distribution<T>
default_integral_distribution(T) == DistType("uniform_int_distribution", T, <<>>)

\* default_floating_point_distribution<T>::get() -> std::uniform_real_distribution<T>
default_floating_point_distribution(T) ==
  DistType("uniform_real_distribution", T, <<>>)

\* default_sequence_distribution<Seq>::get() -> random_sequence_distribution<Seq>,
\* whose Gen is Default_distribution_type<Value_type<Seq>>.
default_sequence_distribution(T) ==
  Composite("random_sequence_distribution", T,
            <<Default_distribution_type(T.args[1])>>)

\* traits::arithmetic_distribution<T, bool = Integral<T>()>
arithmetic_distribution(T) ==
  IF Integral(T)
    THEN default_integral_distribution(T)
    ELSE default_floating_point_distribution(T)

\* traits::udt_distribution<T, bool = Sequence<T>(), bool = Associative_container<T>()>
\* is defined for <T, true, false> only.
udt_distribution(T) ==
  IF Sequence(T) /\ ~Associative_container(T)
    THEN default_sequence_distribution(T)
    ELSE NoDistribution

\* traits::deduce_distribution<T, bool = Arithmetic<T>()>
deduce_distribution(T) ==
  IF Arithmetic(T) THEN arithmetic_distribution(T) ELSE udt_distribution(T)

\* Faulty variant of the traits: the primary template only, no specialisation.
default_distribution_traits_primary(T) == deduce_distribution(T)

\* default_distribution_traits<T>: the specialisations for bool,
\* std::basic_string and std::tuple, and the primary template, which derives
\* from traits::deduce_distribution<T>.
default_distribution_traits(T) ==
  CASE T.name = "bool" -> DistType("bernoulli_distribution", T, <<>>)
    [] T.name = "basic_string" -> DistType("random_string_distribution", T, <<>>)
    [] T.name = "tuple" ->
         Composite("random_tuple_generator", T,
                   [i \in 1 .. Len(T.args) |-> Default_distribution_type(T.args[i])])
    [] OTHER -> deduce_distribution(T)

\* std::bernoulli_distribution{}: p = 1/2.
BernoulliDist(num, den) == [kind |-> "bernoulli", num |-> num, den |-> den]

\* std::uniform_real_distribution<T>{}: [0, 1).
UniformRealDist(a, b) == [kind |-> "uniform_real", a |-> a, b |-> b]

NoDefault == [kind |-> "none"]

\* Size{0, 32}: the default size distribution of a sequence distribution.
SeqLenMin == 0
SeqLenMax == 32

\* Faulty variant of uniform_int_distribution<T>{}: from min() to max().
uniform_int_default_full(T) == UniformIntDist(NumericMin(T), NumericMax(T))

\* std::uniform_int_distribution<T>{}: a = 0, b = numeric_limits<T>::max().
uniform_int_default(T) == UniformIntDist(0, NumericMax(T))

RECURSIVE DefaultConstruct(_)
\* Dist{}: the default-constructed distribution of the type D.
DefaultConstruct(D) ==
  CASE D.dt = "bernoulli_distribution" -> BernoulliDist(1, 2)
    [] D.dt = "uniform_int_distribution" -> uniform_int_default(D.of)
    [] D.dt = "uniform_real_distribution" -> UniformRealDist(0, 1)
    [] D.dt = "random_string_distribution" -> default_string_distribution
    [] D.dt = "random_tuple_generator" ->
         random_tuple_generator([i \in 1 .. Len(D.parts) |-> DefaultConstruct(D.parts[i])])
    [] D.dt = "random_sequence_distribution" ->
         random_sequence_distribution(UniformIntDist(SeqLenMin, SeqLenMax),
                                      DefaultConstruct(D.parts[1]))
    [] OTHER -> NoDefault

\* default_distribution<T>() { return default_distribution_traits<T>::get(); }
\* Every get() returns a default-constructed distribution of its type.
default_distribution(T) == DefaultConstruct(default_distribution_traits(T))

\* What an operation on the default distributions leaves in the history.
DefaultEntry(op, d, val) ==
  /\ hist' = [hist EXCEPT ![1] = Append(@,
       [op |-> op, type |-> input, has |-> d # NoDefault, dist |-> d,
        val |-> val, pre |-> eng[1], post |-> eng'[1]])]
  /\ UNCHANGED <<argOrder, dist, rv, buf, pending, limit, iterVars, input, gs>>

\* auto d = default_distribution<T>() for the type T = input.
ResolveDefault ==
  /\ Len(hist[1]) < limit
  /\ UNCHANGED eng
  /\ DefaultEntry("default_distribution", default_distribution(input), 0)

\* default_distribution<T>()(eng) for an integral type T = input.
GenerateDefault ==
  LET d == default_distribution(input)
      r == Invoke(d, eng[1])
  IN /\ Len(hist[1]) < limit
     /\ d.kind = "uniform_int"
     /\ eng' = [eng EXCEPT ![1] = r.eng]
     /\ DefaultEntry("default_generate", d, r.val)

\* The types defaults are asked for.
LeafTypes ==
  {Bool, Char, SignedChar, UnsignedChar, Short, UnsignedShort, Float, Double,
   String, Struct}
TypesOver(ts) ==
  {Vector(t) : t \in ts} \cup {List(t) : t \in ts} \cup {Set(t) : t \in ts}
    \cup {Tuple(<<t>>) : t \in ts}
    \cup {Tuple(<<t, u>>) : t \in ts, u \in {Bool, Short, String}}
    \cup {Tuple(<<Double, t, Bool>>) : t \in ts}
NestedTypes ==
  TypesOver({Vector(Short), Vector(Struct), List(String), Set(Short),
             Tuple(<<Bool, String>>), Tuple(<<Short, Struct>>), Vector(Vector(Bool))})
TypeMenu == LeafTypes \cup TypesOver(LeafTypes) \cup NestedTypes

IntegralTypes == {SignedChar, UnsignedChar, Short, UnsignedShort}

(***************************************************************************)
(* igenstream<Gen> of sandbox/stream/stream.hpp: an input stream over a    *)
(* generating function.  The member gen is an object of type Gen, here a   *)
(* random variable: one that refers to the caller's engine, or one that    *)
(* holds an engine of its own.  The member cur is never read or written.   *)
(* The caller's engine is eng[1], the destination of the values buf[1].    *)
(***************************************************************************)
\* The value a statement yields from the result of one call: the element of
\* {F(c) : c \in {call}}, where the call is made once however many parts of its
\* result F reads.
Only(S) == CHOOSE y \in S : TRUE

\* igenstream(Gen g) : gen(g)
igenstream(g) == [gen |-> g]

NoStream == igenstream(NoVariable)

\* The state of the engine the stream's own generator draws from.
StreamEngine(s, target) == BoundEngine(s.gen, target)

\* value_type get() { return gen(); }
\* Yields the value, the stream and the caller's engine afterwards, and the
\* draw made.
igenstream_get(s, target) ==
  Only({[val |-> c.val, gs |-> [s EXCEPT !.gen = c.rv], target |-> c.target,
          log |-> <<[at |-> 1, pre |-> StreamEngine(s, target),
                     post |-> BoundEngine(c.rv, c.target), val |-> c.val]>>]
        : c \in {random_variable_call(s.gen, target)}})

\* igenstream& get(value_type& x) { x = get(); return *this; }
igenstream_get_into(s, target) == igenstream_get(s, target)

RECURSIVE std_generate(_, _, _, _, _)
\* std::generate(first, last, g): for (; first != last; ++first) *first = g();
\* g is the function's own parameter, an object of type Gen.
std_generate(first, last, g, target, st) ==
  IF first = last
    THEN [buf |-> st.buf, log |-> st.log, writes |-> st.writes, target |-> target]
    ELSE Only({std_generate(first + 1, last, c.rv, c.target, st1)
               : <<c, st1>> \in
                   {<<c, [buf |-> [st.buf EXCEPT ![first] = c.val],
                          log |-> Append(st.log,
                                    [at |-> first, pre |-> BoundEngine(g, target),
                                     post |-> BoundEngine(c.rv, c.target),
                                     val |-> c.val]),
                          writes |-> Append(st.writes, first)]>>
                    : c \in {random_variable_call(g, target)}}})

\* igenstream& get(I first, I last)
\*   { std::generate(first, last, gen); return *this; }
\* std::generate takes its generator by value: it draws from a copy of gen,
\* and the member gen is as it was.
igenstream_get_iter(s, first, last, target, b) ==
  Only({[gs |-> s, target |-> r.target, buf |-> r.buf, log |-> r.log,
          writes |-> r.writes]
        : r \in {std_generate(first, last, s.gen, target, FillState(b))}})

\* igenstream& get(R&& range) { return get(begin(range), end(range)); }
igenstream_get_range(s, range, target) ==
  igenstream_get_iter(s, 1, Len(range) + 1, target, range)

RECURSIVE igenstream_ignore_short(_, _, _, _)
\* Faulty variant of ignore: while (n > 1).
igenstream_ignore_short(s, n, target, log) ==
  IF n <= 1
    THEN [gs |-> s, target |-> target, log |-> log]
    ELSE Only({igenstream_ignore_short(g.gs, n - 1, g.target, log \o g.log)
               : g \in {igenstream_get(s, target)}})

RECURSIVE igenstream_ignore(_, _, _, _)
\* igenstream& ignore(size_type n) { while (n != 0) { (void)gen(); --n; } return *this; }
igenstream_ignore(s, n, target, log) ==
  IF n = 0
    THEN [gs |-> s, target |-> target, log |-> log]
    ELSE Only({igenstream_ignore(g.gs, n - 1, g.target, log \o g.log)
               : g \in {igenstream_get(s, target)}})

\* igenstream& ignore(size_type n = 1)
IgnoreDefault == 1

\* operator>>(igenstream<Gen>& is, Value_type<igenstream<Gen>>& x) { return is.get(x); }
igenstream_extract(s, target) == igenstream_get_into(s, target)

\* Faulty variant of good: the stream reports that it has no more values.
igenstream_good_false(s) == FALSE

\* bool good() const { return true; }
igenstream_good(s) == TRUE

\* bool fail() const { return false; }
igenstream_fail(s) == FALSE

\* bool bad() const { return false; }
igenstream_bad(s) == FALSE

\* explicit operator bool() const { return good(); }
igenstream_bool(s) == igenstream_good(s)

\* What an operation of the stream leaves in the history.
StreamEntry(op, first, last, n, val, log, writes) ==
  /\ hist' = [hist EXCEPT ![1] = Append(@,
       [op |-> op, first |-> first, last |-> last, n |-> n, val |-> val,
        log |-> log, writes |-> writes,
        genPre |-> StreamEngine(gs, eng[1]), genPost |-> StreamEngine(gs', eng'[1]),
        bufPre |-> buf[1], bufPost |-> buf'[1],
        good |-> igenstream_good(gs'), fail |-> igenstream_fail(gs'),
        bad |-> igenstream_bad(gs'), bool |-> igenstream_bool(gs')])]
  /\ UNCHANGED <<argOrder, dist, rv, pending, limit, iterVars, input>>

\* gs.get()
StreamGet ==
  /\ Len(hist[1]) < limit
  /\ \E r \in {igenstream_get(gs, eng[1])} :
       /\ gs' = r.gs
       /\ eng' = [eng EXCEPT ![1] = r.target]
       /\ UNCHANGED buf
       /\ StreamEntry("get", 0, 0, 1, r.val, r.log, <<>>)

\* gs.get(x) for the object x at position i of the buffer.
StreamGetInto(i) ==
  /\ Len(hist[1]) < limit
  /\ \E r \in {igenstream_get_into(gs, eng[1])} :
       /\ gs' = r.gs
       /\ eng' = [eng EXCEPT ![1] = r.target]
       /\ buf' = [buf EXCEPT ![1][i] = r.val]
       /\ StreamEntry("get_into", i, i + 1, 1, r.val, r.log, <<i>>)

\* gs.get(first, last) for positions of the buffer.
StreamGetIter(first, last) ==
  /\ Len(hist[1]) < limit
  /\ \E r \in {igenstream_get_iter(gs, first, last, eng[1], buf[1])} :
       /\ gs' = r.gs
       /\ eng' = [eng EXCEPT ![1] = r.target]
       /\ buf' = [buf EXCEPT ![1] = r.buf]
       /\ StreamEntry("get_iter", first, last, last - first, 0, r.log, r.writes)

\* gs.get(range) for the buffer.
StreamGetRange ==
  /\ Len(hist[1]) < limit
  /\ \E r \in {igenstream_get_range(gs, buf[1], eng[1])} :
       /\ gs' = r.gs
       /\ eng' = [eng EXCEPT ![1] = r.target]
       /\ buf' = [buf EXCEPT ![1] = r.buf]
       /\ StreamEntry("get_range", 1, Len(buf[1]) + 1, Len(buf[1]), 0, r.log, r.writes)

\* gs.ignore(n)
StreamIgnore(n) ==
  /\ Len(hist[1]) < limit
  /\ \E r \in {igenstream_ignore(gs, n, eng[1], <<>>)} :
       /\ gs' = r.gs
       /\ eng' = [eng EXCEPT ![1] = r.target]
       /\ UNCHANGED buf
       /\ StreamEntry("ignore", 0, 0, n, 0, r.log, <<>>)

\* gs.ignore()
StreamIgnoreOne ==
  /\ Len(hist[1]) < limit
  /\ \E r \in {igenstream_ignore(gs, IgnoreDefault, eng[1], <<>>)} :
       /\ gs' = r.gs
       /\ eng' = [eng EXCEPT ![1] = r.target]
       /\ UNCHANGED buf
       /\ StreamEntry("ignore_default", 0, 0, 1, 0, r.log, <<>>)

\* gs >> x for the object x at position i of the buffer.
StreamExtract(i) ==
  /\ Len(hist[1]) < limit
  /\ \E r \in {igenstream_extract(gs, eng[1])} :
       /\ gs' = r.gs
       /\ eng' = [eng EXCEPT ![1] = r.target]
       /\ buf' = [buf EXCEPT ![1][i] = r.val]
       /\ StreamEntry("extract", i, i + 1, 1, r.val, r.log, <<i>>)

(***************************************************************************)
(* Ranges over incrementable values, of trunk/core/include/origin/range.hpp.*)
(* The values are integers; the argument is input = <<first, last>>.       *)
(***************************************************************************)
\* is_bounded_range(first, last): last is reached from first by incrementing.
is_bounded_range(first, last) == first <= last

\* std_next(i): the value after i.
std_next(i) == i + 1

\* iterator_range(Iter first, Iter last) : first(first), last(last)
iterator_range(first, last) == [first |-> first, last |-> last]

\* iterator begin() const { return first; }
iterator_range_begin(r) == r.first

\* iterator end() const { return last; }
iterator_range_end(r) == r.last

\* iterator_range<Iter> range(Iter first, Iter last) { return {first, last}; }
range(first, last) == iterator_range(first, last)

\* Faulty variant of closed_range: last is not incremented.
closed_range_open(first, last) == iterator_range(first, last)

\* iterator_range<Iter> closed_range(Iter first, Iter last) { return {first, ++last}; }
closed_range(first, last) == iterator_range(first, last + 1)

RECURSIVE Traverse(_, _, _)
\* for (auto i = r.begin(); i != r.end(); ++i) visit(*i), for the counters i
\* of the range: *i is the value counted, ++i increments it.
Traverse(i, end, visited) ==
  IF i = end THEN visited ELSE Traverse(std_next(i), end, Append(visited, i))

\* What making a range and iterating over it leaves in the history.
RangeEntry(op, r) ==
  /\ hist' = [hist EXCEPT ![1] = Append(@,
       [op |-> op, first |-> input[1], last |-> input[2],
        begin |-> iterator_range_begin(r), end |-> iterator_range_end(r),
        visited |-> Traverse(iterator_range_begin(r), iterator_range_end(r), <<>>)])]
  /\ UNCHANGED <<argOrder, dist, eng, rv, buf, pending, limit, iterVars, input, gs>>

\* for (auto i : range(first, last)) ...    precondition: bounded_range(first, last)
MakeRange ==
  /\ Len(hist[1]) < limit
  /\ is_bounded_range(input[1], input[2])
  /\ RangeEntry("range", range(input[1], input[2]))

\* for (auto i : closed_range(first, last)) ...
\* precondition: is_bounded_range(first, std_next(last))
MakeClosedRange ==
  /\ Len(hist[1]) < limit
  /\ is_bounded_range(input[1], std_next(input[2]))
  /\ RangeEntry("closed_range", closed_range(input[1], input[2]))

\* The pairs first <= last ranges are made of.
RangeInputs ==
  {p \in ((0 - MaxLen) .. (MaxLen + 1)) \X ((0 - MaxLen) .. (MaxLen + 1)) : p[1] <= p[2]}

Config(menu, seeds, lim, sizes) ==
  /\ dist \in menu
  /\ argOrder \in (IF dist.kind = "tuple" /\ Len(dist.dists) = 3
                     THEN Perms3 ELSE {LeftToRight})
  /\ \E e0 \in seeds : eng = [w \in Runs |-> e0]
  /\ rv = [w \in Runs |-> NoVariable]
  /\ buf = [w \in Runs |-> [i \in 1 .. MaxLen |-> Prior(w, dist)]]
  /\ hist = [w \in Runs |-> <<>>]
  /\ pending = <<>>
  /\ limit = lim
  /\ \E n \in [CIds -> sizes] : cont = [c \in CIds |-> Container(c, n[c])]
  /\ itd = [s \in Slots |-> NoIterDist]
  /\ store = [c \in CIds |-> Allocated(c)]
  /\ input = <<>>
  /\ gs = NoStream

Init == Config(DistMenu, Seeds, MaxOps, {0})

Next ==
  \E w \in Runs :
    \/ \E first \in 1 .. MaxLen + 1 : \E last \in first .. MaxLen + 1 :
         GenerateRandomIter(w, first, last)
    \/ GenerateRandomRange(w)
    \/ InvokeDist(w)
    \/ \E cat \in {"lvalue", "rvalue"} : MakeRandom(w, cat)
    \/ RvCall(w)
    \/ RvEngine(w)
    \/ RvDistribution(w)

\* Every operation of the facility on engines and distributions, in any order.
Spec == Init /\ [][Next]_vars

\* Random variables only: bound, called and inspected, up to MaxCalls times.
InitRv == Config(DistMenu, Seeds, MaxCalls, {0})

NextRv ==
  \E w \in Runs :
    \/ \E cat \in {"lvalue", "rvalue"} : MakeRandom(w, cat)
    \/ RvCall(w)
    \/ RvEngine(w)
    \/ RvDistribution(w)

SpecRv == InitRv /\ [][NextRv]_vars

\* Invocations of the distribution, from every state of the engine.
InitInvoke == Config(DistMenu, EngStates, MaxOps, {0})

NextInvoke == \E w \in Runs : InvokeDist(w)

SpecInvoke == InitInvoke /\ [][NextInvoke]_vars

\* Iterator-position distributions over containers of 0 .. MaxCont elements.
InitIter == Config({U0}, Seeds, MaxOps, 0 .. MaxCont)

NextIter ==
  \/ \E s \in Slots : \E c \in CIds : IterConstruct(s, c)
  \/ \E s \in Slots : IterInvoke(s)

SpecIter == InitIter /\ [][NextIter]_vars

\* Distributions compared with others of their type, before and after
\* they have generated values.
InitEqual == Config(EqualMenu, Seeds, MaxOps, {0})

NextEqual ==
  \E w \in Runs :
    \/ InvokeDist(w)
    \/ \E other \in EqualMenu : CompareDist(w, other)

SpecEqual == InitEqual /\ [][NextEqual]_vars

\* A generator stream over a random variable that refers to the caller's
\* engine (made from an lvalue) or holds its own (made from an rvalue).
InitStream ==
  /\ dist \in {U0, U1}
  /\ argOrder = LeftToRight
  /\ \E e0 \in Seeds : eng = [w \in Runs |-> e0]
  /\ \E cat \in {"lvalue", "rvalue"} :
       /\ rv = [w \in Runs |-> make_random(cat, eng[w], dist)]
       /\ gs = igenstream(rv[1])
  /\ buf = [w \in Runs |-> [i \in 1 .. MaxLen |-> Prior(w, dist)]]
  /\ hist = [w \in Runs |-> <<>>]
  /\ pending = <<>>
  /\ limit = MaxOps
  /\ cont = [c \in CIds |-> Container(c, 0)]
  /\ itd = [s \in Slots |-> NoIterDist]
  /\ store = [c \in CIds |-> Allocated(c)]
  /\ input = <<>>

NextStream ==
  \/ StreamGet
  \/ \E i \in 1 .. MaxLen : StreamGetInto(i)
  \/ \E first \in 1 .. MaxLen + 1 : \E last \in first .. MaxLen + 1 :
       StreamGetIter(first, last)
  \/ StreamGetRange
  \/ \E n \in 0 .. MaxLen : StreamIgnore(n)
  \/ StreamIgnoreOne
  \/ \E i \in 1 .. MaxLen : StreamExtract(i)

SpecStream == InitStream /\ [][NextStream]_vars

\* The state a specification over an argument starts from.
InitOver(inputs, seeds) ==
  /\ dist = U0
  /\ argOrder = LeftToRight
  /\ \E e0 \in seeds : eng = [w \in Runs |-> e0]
  /\ rv = [w \in Runs |-> NoVariable]
  /\ buf = [w \in Runs |-> [i \in 1 .. MaxLen |-> Prior(w, dist)]]
  /\ hist = [w \in Runs |-> <<>>]
  /\ pending = <<>>
  /\ limit = MaxOps
  /\ cont = [c \in CIds |-> Container(c, 0)]
  /\ itd = [s \in Slots |-> NoIterDist]
  /\ store = [c \in CIds |-> Allocated(c)]
  /\ input \in inputs
  /\ gs = NoStream

\* The default distribution of every type of the menu.
InitRegistry == InitOver(TypeMenu, Seeds)

NextRegistry == ResolveDefault

SpecRegistry == InitRegistry /\ [][NextRegistry]_vars

\* Values of the integral types drawn from their default distributions,
\* from every state of the engine.
InitIntegral == InitOver(IntegralTypes, EngStates)

NextIntegral == GenerateDefault

SpecIntegral == InitIntegral /\ [][NextIntegral]_vars

\* Half-open and closed ranges over every pair first <= last.
InitRange == InitOver(RangeInputs, Seeds)

NextRange == MakeRange \/ MakeClosedRange

SpecRange == InitRange /\ [][NextRange]_vars

\* Two iterator-position distributions in use: both have been constructed,
\* each over one of the containers, which are not empty.
InitIterPair ==
  /\ dist = U0
  /\ argOrder = LeftToRight
  /\ \E e0 \in Seeds : eng = [w \in Runs |-> e0]
  /\ rv = [w \in Runs |-> NoVariable]
  /\ buf = [w \in Runs |-> [i \in 1 .. MaxLen |-> Prior(w, dist)]]
  /\ hist = [w \in Runs |-> <<>>]
  /\ pending = <<>>
  /\ limit = MaxOps
  /\ \E n \in [CIds -> 1 .. MaxCont] : cont = [c \in CIds |-> Container(c, n[c])]
  /\ store = [c \in CIds |-> Allocated(c)]
  /\ input = <<>>
  /\ gs = NoStream
  /\ \E of \in [Slots -> CIds] :
       itd = [s \in Slots |-> random_iterator_distribution(of[s])]

NextIterPair ==
  \/ \E s \in Slots : IterInvoke(s)
  \/ \E s, t \in Slots : IterCompare(s, t)
  \/ \E c \in CIds : \E n \in 0 .. MaxCont : Resize(c, n)

SpecIterPair == InitIterPair /\ [][NextIterPair]_vars

(***************************************************************************)
(* Properties.  h ranges over the entries of the histories.                *)
(***************************************************************************)
IsFill(h) == h.op \in {"generate_random_iter", "generate_random_range"}

\* The positions [FillFirst(h), FillLast(h)) a bulk fill was asked to fill.
FillFirst(h) == IF h.op = "generate_random_range" THEN 1 ELSE h.first
FillLast(h) == IF h.op = "generate_random_range" THEN Len(h.bufPre) + 1 ELSE h.last

\* The fill drew once per position, in range order, each draw continuing
\* from the engine state the one before left, and stored the i-th draw at
\* the i-th position; it assigned nothing else.
FillInOrder(h) ==
  LET f == FillFirst(h)
      n == FillLast(h) - f
  IN /\ Len(h.log) = n
     /\ Len(h.writes) = n
     /\ Len(h.bufPost) = Len(h.bufPre)
     /\ \A i \in 1 .. n :
          /\ h.writes[i] = f + i - 1
          /\ h.log[i].at = f + i - 1
          /\ h.log[i].pre = (IF i = 1 THEN h.pre ELSE h.log[i - 1].post)
          /\ h.log[i].val = Invoke(dist, h.log[i].pre).val
          /\ h.log[i].post = Invoke(dist, h.log[i].pre).eng
          /\ h.bufPost[f + i - 1] = h.log[i].val
     /\ h.post = (IF n = 0 THEN h.pre ELSE h.log[n].post)
     /\ \A j \in 1 .. Len(h.bufPre) :
          (j < f \/ j >= FillLast(h)) => h.bufPost[j] = h.bufPre[j]

\* The range overload did what the iterator overload does on [begin, end).
RangeAsIterators(h) ==
  LET r == generate_random(1, Len(h.bufPre) + 1, h.pre, dist, FillState(h.bufPre))
  IN /\ h.bufPost = r.buf
     /\ h.post = r.eng
     /\ h.log = r.log
     /\ h.writes = r.writes

\* C1: a bulk fill over n positions invokes the distribution on the engine
\* exactly n times, stores the result of the i-th invocation at the i-th
\* position, in range order, writes no position twice and skips none; the
\* range overload behaves like the iterator overload on [begin, end).
C1_FillInRangeOrder ==
  \A w \in Runs : \A k \in 1 .. Len(hist[w]) :
    LET h == hist[w][k]
    IN IsFill(h) =>
         /\ FillInOrder(h)
         /\ h.op = "generate_random_range" => RangeAsIterators(h)

\* A fill of two or more positions by each overload has happened.
C1_Witness ==
  /\ Len(hist[1]) = 2
  /\ hist[1][1].op = "generate_random_iter"
  /\ hist[1][1].last - hist[1][1].first >= 2
  /\ hist[1][2].op = "generate_random_range"
  /\ dist.kind = "uniform_int"

\* C2: a bulk fill of an empty range (first = last) has no effect: the
\* distribution is not invoked, the engine keeps its state and nothing is
\* written.
C2_EmptyFillNoEffect ==
  \A w \in Runs : \A k \in 1 .. Len(hist[w]) :
    LET h == hist[w][k]
    IN (h.op = "generate_random_iter" /\ h.first = h.last) =>
         /\ h.log = <<>>
         /\ h.writes = <<>>
         /\ h.post = h.pre
         /\ h.bufPost = h.bufPre
         /\ h.rvPost = h.rvPre

\* An empty range in the middle of the buffer has been filled.
C2_Witness ==
  \E k \in 1 .. Len(hist[1]) :
    /\ hist[1][k].op = "generate_random_iter"
    /\ hist[1][k].first = 2
    /\ hist[1][k].last = 2
    /\ dist.kind = "uniform_int"

\* Up to their k-th operation the two runs bound their random variables the
\* same way.
SameChoices(k) == \A j \in 1 .. k : hist[1][j].cat = hist[2][j].cat

\* The k-th operations of the two runs produced the same values and left
\* the same engine states.
SameOutcome(k) ==
  LET a == hist[1][k]
      b == hist[2][k]
  IN /\ a.op = b.op
     /\ a.val = b.val
     /\ a.log = b.log
     /\ a.writes = b.writes
     /\ a.post = b.post
     /\ a.rvPost = b.rvPost
     /\ IsFill(a) =>
          \A i \in FillFirst(a) .. FillLast(a) - 1 : a.bufPost[i] = b.bufPost[i]

IsRvOp(h) == h.op \in {"rv_call", "rv_engine", "rv_distribution"}

\* C4: rv() returns what dist(eng) returns on the bound engine and leaves
\* the bound engine as dist(eng) leaves it; engine() and distribution()
\* return the bound pieces and draw nothing.
C4_RandomVariableIsDistOnEngine ==
  \A w \in Runs : \A k \in 1 .. Len(hist[w]) :
    LET h == hist[w][k]
        bound == BoundEngine(h.rvPre, h.pre)
    IN /\ h.op = "make_random" =>
            /\ BoundEngine(h.rvPost, h.post) = h.pre
            /\ h.rvPost.dist = dist
       /\ h.op = "rv_call" =>
            /\ h.val = Invoke(h.rvPre.dist, bound).val
            /\ BoundEngine(h.rvPost, h.post) = Invoke(h.rvPre.dist, bound).eng
            /\ h.rvPost.dist = h.rvPre.dist
            /\ h.rvPost.bind = h.rvPre.bind
       /\ h.op = "rv_engine" =>
            /\ h.val = bound
            /\ h.post = h.pre
            /\ h.rvPost = h.rvPre
       /\ h.op = "rv_distribution" =>
            /\ h.val = h.rvPre.dist
            /\ h.post = h.pre
            /\ h.rvPost = h.rvPre

\* A random variable over the string distribution was called and then
\* asked for its engine.
C4_Witness ==
  /\ Len(hist[1]) = 3
  /\ hist[1][1].op = "make_random"
  /\ hist[1][2].op = "rv_call"
  /\ hist[1][3].op = "rv_engine"
  /\ dist = default_string_distribution
  /\ Len(hist[1][2].val) >= 2

\* At step j run 1 bound its random variable to the caller's engine by
\* reference and run 2 to a copy of it, from the same engine state, and up
\* to step k only the random variables were used since.
RefAndValue(j, k) ==
  /\ hist[1][j].op = "make_random"
  /\ hist[1][j].cat = "lvalue"
  /\ hist[2][j].cat = "rvalue"
  /\ hist[1][j].pre = hist[2][j].pre
  /\ \A i \in j + 1 .. k : IsRvOp(hist[1][i])

SequenceDraws(h, d) ==
  LET n == Len(h.val)
  IN /\ Len(h.log) = n + 1
     /\ h.log[1].at = 0
     /\ h.log[1].pre = h.pre
     /\ h.log[1].val = Invoke(d.size, h.pre).val
     /\ h.log[1].post = Invoke(d.size, h.pre).eng
     /\ h.log[1].val = n
     /\ \A i \in 1 .. n :
          /\ h.log[i + 1].at = i
          /\ h.log[i + 1].pre = h.log[i].post
          /\ h.log[i + 1].val = Invoke(d.gen, h.log[i + 1].pre).val
          /\ h.log[i + 1].post = Invoke(d.gen, h.log[i + 1].pre).eng
          /\ h.val[i] = h.log[i + 1].val
     /\ h.post = h.log[n + 1].post

\* C6: an invocation of a sequence distribution draws the length n from the
\* size distribution, then the n elements in position order from the element
\* distribution, all on the caller's engine; the result has length n, its
\* i-th element is the i-th element draw, and the caller's engine is past
\* all the draws afterwards, so the next invocation starts after them.
C6_SequenceDrawOrder ==
  \A w \in Runs : \A k \in 1 .. Len(hist[w]) :
    LET h == hist[w][k]
    IN (h.op = "invoke" /\ dist.kind = "sequence") =>
         /\ SequenceDraws(h, dist)
         /\ k > 1 => h.log[1].pre = hist[w][k - 1].log[Len(hist[w][k - 1].log)].post

\* A sequence of two elements or more was generated, and another after it.
C6_Witness ==
  /\ Len(hist[1]) = 2
  /\ dist.kind = "sequence"
  /\ hist[1][1].op = "invoke"
  /\ Len(hist[1][1].val) >= 2
  /\ Len(hist[1][2].val) >= 1

\* C7: an invocation of a tuple distribution draws its components in field
\* order from the one engine it is given, and field i of the result holds
\* the value distribution i produced.
C7_TupleFieldOrder ==
  \A w \in Runs : \A k \in 1 .. Len(hist[w]) :
    LET h == hist[w][k]
    IN (h.op = "invoke" /\ dist.kind = "tuple") =>
         /\ Len(h.log) = Len(dist.dists)
         /\ Len(h.val) = Len(dist.dists)
         /\ \A i \in 1 .. Len(h.log) :
              /\ h.log[i].at = i
              /\ h.log[i].pre = (IF i = 1 THEN h.pre ELSE h.log[i - 1].post)
              /\ h.log[i].val = Invoke(dist.dists[i], h.log[i].pre).val
              /\ h.val[i] = h.log[i].val
         /\ h.post = h.log[Len(h.log)].post

C9_SingleValueDrawsNothing ==
  \A w \in Runs : \A k \in 1 .. Len(hist[w]) :
    LET h == hist[w][k]
    IN (h.op = "invoke" /\ dist.kind = "single_value") =>
         /\ h.val = dist.value
         /\ h.post = h.pre
         /\ h.log = <<>>

\* The single-value distribution was invoked twice on the greatest engine
\* state.
C9_Witness ==
  /\ Len(hist[1]) = 2
  /\ dist.kind = "single_value"
  /\ hist[1][2].op = "invoke"
  /\ hist[1][2].pre = EngMax

\* C10: an iterator-position distribution over an empty container is never
\* produced, and no invocation returns a position for an empty container.
C10_EmptyContainerRejected ==
  /\ \A s \in Slots : itd[s].live => itd[s].size0 > 0
  /\ \A k \in 1 .. Len(hist[1]) :
       hist[1][k].op = "iter_invoke" => hist[1][k].size > 0

\* The invocations the history of the run holds.
IsIterInvoke(k) == k \in 1 .. Len(hist[1]) /\ hist[1][k].op = "iter_invoke"

\* C11: an iterator-position distribution constructed over a container that
\* is not empty and is not resized afterwards draws, at every invocation, an
\* index i with 0 <= i <= size - 1 and returns begin() advanced by i: the
\* position of an element of the container, never end().
C11_PositionInRange ==
  \A k \in 1 .. Len(hist[1]) :
    LET h == hist[1][k]
    IN (IsIterInvoke(k) /\ h.size0 > 0 /\ h.size = h.size0) =>
         /\ h.idx \in 0 .. h.size - 1
         /\ h.pos = h.begin + h.idx
         /\ h.pos \in h.begin .. h.begin + h.size - 1
         /\ h.pos # container_end(h.cont)

\* A distribution over a container of two elements or more has returned
\* the position of the last element.
C11_Witness ==
  \E k \in 1 .. Len(hist[1]) :
    /\ IsIterInvoke(k)
    /\ hist[1][k].size0 >= 2
    /\ hist[1][k].idx = hist[1][k].size0 - 1

\* C12: two iterator-position distributions compare equal exactly when
\* they refer to the same container; distributions over two containers with
\* equal contents are not equal, and != is the negation of ==.
C12_EqualityIsContainerIdentity ==
  \A k \in 1 .. Len(hist[1]) :
    LET h == hist[1][k]
    IN h.op = "iter_compare" =>
         /\ h.eq <=> (itd[h.slot].cont = itd[h.other].cont)
         /\ h.neq <=> ~h.eq
         /\ (h.slot # h.other /\ itd[h.slot].cont # itd[h.other].cont
               /\ cont[itd[h.slot].cont] = cont[itd[h.other].cont]) => ~h.eq

\* Two distributions over different containers with equal contents have
\* been compared.
C12_Witness ==
  /\ Len(hist[1]) = 1
  /\ hist[1][1].op = "iter_compare"
  /\ hist[1][1].slot # hist[1][1].other
  /\ itd[1].cont # itd[2].cont
  /\ cont[1] = cont[2]
  /\ Len(cont[1]) >= 2

\* The container of the invocation at k was resized before it.
ResizedBefore(k) ==
  \E j \in 1 .. k - 1 :
    hist[1][j].op = "resize" /\ hist[1][j].cont = hist[1][k].cont

\* C19: the index bound of an iterator-position distribution is fixed at
\* construction: whatever the container's size is at an invocation, the
\* index is drawn from [0, size at construction - 1], and the position is
\* counted from the begin() the container has at the invocation.
C19_BoundFixedAtConstruction ==
  \A k \in 1 .. Len(hist[1]) :
    LET h == hist[1][k]
        r == Invoke(UniformIntDist(0, (h.size0 - 1) % SizeModulus), h.pre)
    IN IsIterInvoke(k) =>
         /\ h.idx = r.val
         /\ h.post = r.eng
         /\ h.idx \in 0 .. (h.size0 - 1) % SizeModulus
         /\ h.pos = h.begin + h.idx
         /\ k = Len(hist[1]) => h.begin = container_begin(h.cont)

\* After the container was made smaller, an invocation has returned a
\* position at or past its end.
C19_Witness ==
  /\ Len(hist[1]) = 2
  /\ hist[1][1].op = "resize"
  /\ IsIterInvoke(2)
  /\ hist[1][2].cont = hist[1][1].cont
  /\ hist[1][2].size < hist[1][2].size0
  /\ hist[1][2].pos >= hist[1][2].begin + hist[1][2].size

\* After the container grew and its elements moved, an invocation has
\* returned a position counted from the new begin().
C19_WitnessMoved ==
  /\ Len(hist[1]) = 2
  /\ hist[1][1].op = "resize"
  /\ IsIterInvoke(2)
  /\ hist[1][2].cont = hist[1][1].cont
  /\ hist[1][2].begin # Allocated(hist[1][2].cont)
  /\ hist[1][2].pos >= hist[1][2].begin

\* The default distributions of the types T is instantiated with exist.
ComponentsHaveDefaults(T) ==
  \A i \in 1 .. Len(T.args) : default_distribution(T.args[i]) # NoDefault

\* C13: the default of a type is found by the fixed priority order: bool
\* gives the Bernoulli default although bool is integral; a string type
\* gives the string distribution, never the generic sequence distribution;
\* a tuple gives the tuple distribution of the defaults of its components;
\* only then an integral type gives uniform-integer, a floating-point type
\* uniform-real and a sequence-like type the sequence distribution over the
\* default of its element type; a type matching no rule has no default.
C13_RegistryPriority ==
  \A k \in 1 .. Len(hist[1]) :
    LET h == hist[1][k]
        T == h.type
    IN h.op = "default_distribution" =>
         CASE T.name = "bool" ->
                h.has /\ h.dist.kind = "bernoulli" /\ 2 * h.dist.num = h.dist.den
           [] T.name = "basic_string" ->
                /\ h.has
                /\ h.dist = random_string_distribution(
                              UniformIntDist(StrLenMin, StrLenMax),
                              UniformIntDist(StrCharMin, StrCharMax))
                /\ h.dist.gen # default_distribution(T.args[1])
           [] T.name = "tuple" ->
                IF ComponentsHaveDefaults(T)
                  THEN /\ h.has
                       /\ h.dist.kind = "tuple"
                       /\ Len(h.dist.dists) = Len(T.args)
                       /\ \A i \in 1 .. Len(T.args) :
                            h.dist.dists[i] = default_distribution(T.args[i])
                  ELSE ~h.has
           [] T.name \in {"char", "signed char", "unsigned char", "short",
                          "unsigned short"} ->
                h.has /\ h.dist.kind = "uniform_int"
           [] T.name \in {"float", "double"} ->
                h.has /\ h.dist.kind = "uniform_real"
           [] T.name \in {"vector", "list"} ->
                IF ComponentsHaveDefaults(T)
                  THEN /\ h.has
                       /\ h.dist.kind = "sequence"
                       /\ h.dist.gen = default_distribution(T.args[1])
                  ELSE ~h.has
           [] OTHER -> ~h.has

\* The default of a tuple of a list of strings and a bool has been found.
C13_Witness ==
  /\ Len(hist[1]) >= 1
  /\ hist[1][1].op = "default_distribution"
  /\ hist[1][1].type = Tuple(<<List(String), Bool>>)
  /\ hist[1][1].has
  /\ hist[1][1].dist.dists[1].gen = default_string_distribution
  /\ hist[1][1].dist.dists[2].kind = "bernoulli"

\* C14 as stated: the default distribution of an integral type T ranges
\* from the minimum of T to the maximum of T, and every value v generated
\* satisfies min(T) <= v <= max(T).
C14_DefaultIntegralFullRange ==
  \A k \in 1 .. Len(hist[1]) :
    LET h == hist[1][k]
    IN h.op = "default_generate" =>
         /\ h.dist.a = NumericMin(h.type)
         /\ h.dist.b = NumericMax(h.type)
         /\ h.val \in NumericMin(h.type) .. NumericMax(h.type)

\* C14 amended: the default distribution of an integral type T ranges from
\* 0 to the maximum of T, for signed as well as unsigned T; every value v
\* generated satisfies 0 <= v <= max(T), so no negative value is generated.
C14_DefaultIntegralFromZero ==
  \A k \in 1 .. Len(hist[1]) :
    LET h == hist[1][k]
        r == UniformInt(0, NumericMax(h.type), h.pre)
    IN h.op = "default_generate" =>
         /\ h.dist.a = 0
         /\ h.dist.b = NumericMax(h.type)
         /\ h.val \in 0 .. NumericMax(h.type)
         /\ h.val = r.val
         /\ h.post = r.eng

\* The greatest value of a signed type has been generated, and a value
\* after it.
C14_Witness ==
  /\ Len(hist[1]) = 2
  /\ hist[1][1].op = "default_generate"
  /\ IsSigned(hist[1][1].type)
  /\ hist[1][1].val = NumericMax(hist[1][1].type)
  /\ hist[1][2].val < NumericMax(hist[1][1].type)

\* The least value, 0, of the default distribution of a signed type has
\* been generated.
C14_WitnessZero ==
  /\ Len(hist[1]) >= 1
  /\ IsSigned(hist[1][1].type)
  /\ hist[1][1].val = 0

RECURSIVE SameParameters(_, _)
\* The distributions x and y of one type were built from equal parameters:
\* equal bounds or values, and component by component, in order, equal
\* parameters again.
SameParameters(x, y) ==
  CASE x.kind = "uniform_int" -> x.a = y.a /\ x.b = y.b
    [] x.kind = "single_value" -> x.value = y.value
    [] x.kind = "sequence" ->
         SameParameters(x.size, y.size) /\ SameParameters(x.gen, y.gen)
    [] x.kind = "tuple" ->
         \A i \in 1 .. Len(x.dists) : SameParameters(x.dists[i], y.dists[i])
    [] x.kind = "adapted" -> SameParameters(x.dist, y.dist)

\* C15: two sequence distributions are equal iff their size distributions
\* and their element distributions are equal, two tuple distributions iff
\* their components are pairwise equal in order, two adapted distributions
\* iff their inner distributions are equal, recursively; what a
\* distribution has generated so far does not matter, and != is the
\* negation of ==.
C15_StructuralEquality ==
  \A w \in Runs : \A k \in 1 .. Len(hist[w]) :
    LET h == hist[w][k]
    IN h.op = "compare" =>
         /\ h.val.eq <=> SameParameters(dist, h.val.other)
         /\ h.val.eq <=> (dist = h.val.other)
         /\ h.val.neq <=> ~h.val.eq
         /\ \A j \in 1 .. Len(hist[w]) :
              (hist[w][j].op = "compare" /\ hist[w][j].val.other = h.val.other)
                => hist[w][j].val.eq = h.val.eq

\* A tuple of a sequence distribution and an adapted distribution that has
\* generated a value was found unequal to one that differs in the element
\* distribution of the sequence only.
C15_Witness ==
  /\ Len(hist[1]) = 2
  /\ hist[1][1].op = "invoke"
  /\ hist[1][2].op = "compare"
  /\ dist.kind = "tuple"
  /\ dist.dists[1].kind = "sequence"
  /\ dist.dists[2] = hist[1][2].val.other.dists[2]
  /\ dist.dists[1].size = hist[1][2].val.other.dists[1].size
  /\ dist.dists[1].gen # hist[1][2].val.other.dists[1].gen
  /\ ~hist[1][2].val.eq

\* C16: in every state the operations of a generator stream lead to, good()
\* is true, fail() is false, bad() is false and the conversion to bool is
\* true.
C16_StreamAlwaysGood ==
  /\ igenstream_good(gs)
  /\ ~igenstream_fail(gs)
  /\ ~igenstream_bad(gs)
  /\ igenstream_bool(gs)
  /\ \A k \in 1 .. Len(hist[1]) :
       hist[1][k].good /\ ~hist[1][k].fail /\ ~hist[1][k].bad /\ hist[1][k].bool

\* The stream has filled a range and then skipped values.
C16_Witness ==
  /\ Len(hist[1]) = 2
  /\ hist[1][1].op = "get_range"
  /\ hist[1][2].op = "ignore"
  /\ hist[1][2].n >= 2

\* The draws of the entry h: n of them, each from the state of the stream's
\* generator the one before left, the first from the state the operation
\* found, and the generator is left after the last.
DrawsFromStream(h, n) ==
  /\ Len(h.log) = n
  /\ \A i \in 1 .. n :
       /\ h.log[i].pre = (IF i = 1 THEN h.genPre ELSE h.log[i - 1].post)
       /\ h.log[i].val = Invoke(dist, h.log[i].pre).val
       /\ h.log[i].post = Invoke(dist, h.log[i].pre).eng
  /\ h.genPost = (IF n = 0 THEN h.genPre ELSE h.log[n].post)

\* C17: get(first, last) and get(range) store the next n = last - first
\* values of the stream, in order, in the destination, and advance the
\* stream's own generator by n: the operation after them starts where they
\* ended, so no value is delivered twice.
C17_GetRangeAdvancesStream ==
  \A k \in 1 .. Len(hist[1]) :
    LET h == hist[1][k]
    IN h.op \in {"get_iter", "get_range"} =>
         /\ DrawsFromStream(h, h.last - h.first)
         /\ \A i \in 1 .. Len(h.log) : h.bufPost[h.first + i - 1] = h.log[i].val
         /\ (k < Len(hist[1]) /\ h.log # <<>> /\ hist[1][k + 1].log # <<>>) =>
              hist[1][k + 1].log[1].pre = h.log[Len(h.log)].post

\* C18: ignore(n) calls the generating function exactly n times and stores
\* nothing (once without an argument, not at all for n = 0); get(x) and >>
\* call it exactly once and store the result in x.
C18_IgnoreAndExtractCounts ==
  \A k \in 1 .. Len(hist[1]) :
    LET h == hist[1][k]
    IN /\ h.op = "ignore" => DrawsFromStream(h, h.n) /\ h.bufPost = h.bufPre
       /\ h.op = "ignore_default" => DrawsFromStream(h, 1) /\ h.bufPost = h.bufPre
       /\ h.op \in {"get_into", "extract"} =>
            /\ DrawsFromStream(h, 1)
            /\ h.bufPost[h.first] = h.log[1].val
            /\ \A j \in 1 .. Len(h.bufPre) : j # h.first => h.bufPost[j] = h.bufPre[j]

\* Two values were skipped and the one after them extracted into an object.
C18_Witness ==
  /\ Len(hist[1]) = 2
  /\ hist[1][1].op = "ignore"
  /\ hist[1][1].n = 2
  /\ hist[1][2].op = "extract"
  /\ hist[1][2].log[1].pre = hist[1][1].log[2].post

\* Nothing was skipped by ignore(0), and the stream went on from where it was.
C18_WitnessZero ==
  /\ Len(hist[1]) = 2
  /\ hist[1][1].op = "ignore"
  /\ hist[1][1].n = 0
  /\ hist[1][2].op = "get_into"
  /\ hist[1][2].genPre = hist[1][1].genPre

\* C20: range(first, last) is the half-open range [first, last): begin() is
\* first, end() is last, and iterating visits first, first + 1, ...,
\* last - 1 in increasing order, nothing when first = last;
\* closed_range(first, last) is range(first, next(last)): it visits the
\* values of range(first, last) and then last.
C20_RangeAndClosedRange ==
  \A k \in 1 .. Len(hist[1]) :
    LET h == hist[1][k]
        halfOpen == [i \in 1 .. h.last - h.first |-> h.first + i - 1]
    IN /\ h.op = "range" =>
            /\ h.begin = h.first
            /\ h.end = h.last
            /\ h.visited = halfOpen
            /\ h.first = h.last => h.visited = <<>>
       /\ h.op = "closed_range" =>
            /\ h.begin = iterator_range_begin(range(h.first, h.last + 1))
            /\ h.end = iterator_range_end(range(h.first, h.last + 1))
            /\ h.visited = Append(halfOpen, h.last)
            /\ h.visited[Len(h.visited)] = h.last

\* Over a pair with values between first and last, the half-open range was
\* iterated and then the closed range.
C20_Witness ==
  /\ Len(hist[1]) = 2
  /\ hist[1][1].op = "range"
  /\ hist[1][2].op = "closed_range"
  /\ input[1] < 0
  /\ input[2] >= input[1] + 2
  /\ Len(hist[1][2].visited) = Len(hist[1][1].visited) + 1
====
